---- MODULE Spec2Model ----
(***************************************************************************)
(* Model of scripts/session_9/main.py: an iris prediction service that     *)
(* logs every served request into the rolling list production_data and     *)
(* generates drift reports from it, from an APScheduler job running in the *)
(* scheduler's thread and from two manual endpoints running on the event   *)
(* loop.                                                                   *)
(*                                                                         *)
(* Threads.  Every endpoint but /health is an `async def` without an       *)
(* await: the event loop runs one such handler at a time, from its first   *)
(* line to its return.  The job 'drift_detection' runs in the scheduler's  *)
(* thread pool and interleaves with the handler on the event loop at every *)
(* access to shared state (the list, the clock, the reports directory).    *)
(***************************************************************************)
EXTENDS Integers, Sequences, FiniteSets, TLC

\* ------------------------------------------------------------------------
\* Program constants
\* ------------------------------------------------------------------------
Capacity == 500

MIN_SAMPLES == 10

features_list ==
  << "sepal length (cm)", "sepal width (cm)",
     "petal length (cm)", "petal width (cm)" >>

target_names == << "setosa", "versicolor", "virginica" >>

\* ------------------------------------------------------------------------
\* Bounds of the model
\* ------------------------------------------------------------------------
\* successful /predict calls explored by Spec
MaxRequests == 11

\* successful /predict calls explored by SpecBuffer (beyond Capacity)
MaxAppends == 502

\* the wall clock, in half seconds, runs from 0 to MaxClock: runs started
\* before and after a tick fall in the same second and build the same name
MaxClock == 1

\* analysis runs (runs that pass the MIN_SAMPLES check) explored by Spec
MaxRuns == 2

\* ------------------------------------------------------------------------
\* Requests and the classifier
\* ------------------------------------------------------------------------
Columns == { features_list[i] : i \in 1..Len(features_list) }

\* The k-th reading a client sends: a feature map with the four columns.
Reading(k) == [c \in Columns |-> k]

\* A request of the wrong shape: the same reading without its last column.
BadShape(k) == [c \in Columns \ {"petal width (cm)"} |-> k]

\* The feature maps a client may send once k - 1 readings were logged.
FeatureInputs(k) == { Reading(k), BadShape(k) }

\* model.predict(pd.DataFrame([features])) raises when the columns of the
\* request are not the columns the forest was fitted on.
ModelRaises(features) == DOMAIN features # Columns

\* The fitted forest is a fixed function of the features; its class index
\* is in 0..2.
ModelPredict(features) == features["petal length (cm)"] % 3

\* Variant: the entry is logged without the prediction.
LogEntry_NoPrediction(features, prediction_idx) == features

\* log_entry = features.copy(); log_entry["prediction"] = int(prediction_idx)
LogEntry(features, prediction_idx) ==
  [c \in DOMAIN features \cup {"prediction"} |->
     IF c = "prediction" THEN prediction_idx ELSE features[c]]

\* Variant: the request is logged before the model is asked.
predict_try_LogFirst(buf, features) ==
  IF ModelRaises(features)
  THEN [buf |-> Append(buf, features), ok |-> FALSE,
        body |-> [error |-> "invalid input"]]
  ELSE [buf |-> Append(buf, LogEntry(features, ModelPredict(features))),
        ok |-> TRUE,
        body |-> [class |-> target_names[ModelPredict(features) + 1],
                  class_id |-> ModelPredict(features)]]

\* The body of predict's try block up to the append: the list after it and
\* what the handler is about to return.
predict_try(buf, features) ==
  IF ModelRaises(features)
  THEN [buf |-> buf, ok |-> FALSE, body |-> [error |-> "invalid input"]]
  ELSE [buf |-> Append(buf, LogEntry(features, ModelPredict(features))),
        ok |-> TRUE,
        body |-> [class |-> target_names[ModelPredict(features) + 1],
                  class_id |-> ModelPredict(features)]]

\* What predict returns for a request, by the same computation.
predict_body(features) == predict_try(<< >>, features).body

\* Variant: pop() for pop(0), the newest entry is evicted.
Evict_Newest(buf) ==
  IF Len(buf) > Capacity THEN SubSeq(buf, 1, Len(buf) - 1) ELSE buf

\* Variant: the list is emptied when it overflows.
Evict_Clear(buf) == IF Len(buf) > Capacity THEN << >> ELSE buf

\* if len(production_data) > 500: production_data.pop(0)
Evict(buf) == IF Len(buf) > Capacity THEN Tail(buf) ELSE buf


\* ------------------------------------------------------------------------
\* Reports directory, clock and the analysis
\* ------------------------------------------------------------------------
\* clock counts half seconds
TicksPerSecond == 2

\* datetime.now().strftime("%Y%m%d_%H%M%S"): the instant cut to its second
Strftime(now) == now \div TicksPerSecond

latest_report_path == << "drift_report_latest" >>

\* os.path.join(reports_dir, f"drift_report_{timestamp}.html") for the
\* background function, f"drift_report_manual_{timestamp}.html" for
\* generate_report
report_path(trigger, timestamp) ==
  IF trigger = "generate_report"
  THEN << "drift_report_manual", timestamp >>
  ELSE << "drift_report", timestamp >>

Paths ==
  { << prefix, ts >> : prefix \in {"drift_report", "drift_report_manual"},
                       ts \in 0..Strftime(MaxClock) }
  \cup { latest_report_path }

Absent == [kind |-> "absent"]

Partial == [kind |-> "partial"]

\* data.frame of load_iris, one row per class here
IrisFrame ==
  [i \in 1..3 |-> [c \in Columns \cup {"target"} |->
                     IF c = "target" THEN i - 1 ELSE i]]

\* df_current[features_list]
SelectFeatures(df) == [i \in 1..Len(df) |-> [c \in Columns |-> df[i][c]]]

\* Report([DataDriftPreset()]).run(reference_data, current_data): the
\* evaluation is a function of the two frames and of nothing else.
Analyze(reference_data, current_data) ==
  [kind |-> "report", reference |-> reference_data, current |-> current_data]

\* my_eval.save_html(path) opens the file for writing and writes the page.
\* It returns, or it raises before the file was touched, or it raises after
\* the file was truncated and partly written.
SaveOutcomes == {"ok", "raise_untouched", "raise_partial"}

save_html(dir, path, my_eval, outcome) ==
  CASE outcome = "ok" -> [dir EXCEPT ![path] = my_eval]
    [] outcome = "raise_untouched" -> dir
    [] outcome = "raise_partial" -> [dir EXCEPT ![path] = Partial]

\* Modification times are compared, never read as numbers: the model keeps
\* their order.  Key(path) marks a time that os.path.getmtime(path)
\* returned to the sort of monitor_status and that the file has lost since.
Key(path) == << "read" >> \o path

IsKey(q) == q[1] = "read"

HasKey(order, path) == \E i \in 1..Len(order) : order[i] = Key(path)

\* the files' modification times of now
LiveOrder(order) == SelectSeq(order, LAMBDA q : ~ IsKey(q))

\* The order of modification times after path was opened for writing: the
\* file gets the newest time.  held are the paths whose time a running sort
\* has read: the time it read stays where it was.
Touch(order, path, held) ==
  IF path \in held /\ ~ HasKey(order, path)
  THEN Append([i \in 1..Len(order) |->
                 IF order[i] = path THEN Key(path) ELSE order[i]], path)
  ELSE Append(SelectSeq(order, LAMBDA q : q # path), path)

\* Variant: only an empty list counts as too small.
InsufficientData_Empty(n) == n < 1

\* Variant: the gate lets a list one entry short of the minimum through.
InsufficientData_OffByOne(n) == n < MIN_SAMPLES - 1

\* if len(production_data) < 10
InsufficientData(n) == n < MIN_SAMPLES

\* ------------------------------------------------------------------------
\* State
\* ------------------------------------------------------------------------
VARIABLES
  production_data,  \* the global list of log entries
  df_reference,     \* the reference frame
  scheduler,        \* "stopped", "running" or "shutdown"
  handler,          \* the handler the event loop is executing, or "idle"
  request,          \* predict's argument features, while predict executes
  globbed,          \* monitor_status's local files: the paths glob returned
  keyed,            \* the paths whose modification time the sort has read
  run,              \* per thread, the locals of the analysis function
  files,            \* the reports directory: path -> content
  modified,         \* modification times, oldest first: a path stands for
                    \* the file's time now, Key(path) for an older time of
                    \* the file that the running sort has read
  clock,            \* wall clock, in half seconds
  response,         \* the last response the event loop returned
  appended,         \* history: number of append calls on production_data
  predicted,        \* history: number of predictions returned
  runs,             \* history: number of runs that passed the size check
  lastCompleted     \* history: evaluation of the last run that completed

vars == << production_data, df_reference, scheduler, handler, request, globbed,
           keyed, run, files, modified, clock, response, appended, predicted, runs, lastCompleted >>

Threads == {"scheduler", "loop"}

Other(t) == IF t = "scheduler" THEN "loop" ELSE "scheduler"

\* Locals of generate_drift_report_background / generate_report.  outcome
\* and latest_before are history fields: how the last run of the thread
\* ended, and the latest file as it was when the current run started.
RunIdle ==
  [pc |-> "idle", trigger |-> "none", df_current |-> << >>,
   my_eval |-> Absent, timestamp |-> 0, outcome |-> "none",
   latest_before |-> Absent]

\* the analysis proper: after the MIN_SAMPLES check, up to the last write
InProgress(r) ==
  r.pc \in {"snapshot", "analyze", "save_report", "save_latest"}

NoResponse == [handler |-> "none", request |-> << >>, body |-> [message |-> "none"]]

Init ==
  /\ production_data = << >>
  /\ df_reference = IrisFrame
  /\ scheduler = "stopped"
  /\ handler = "idle"
  /\ request = << >>
  /\ globbed = {}
  /\ keyed = {}
  /\ run = [t \in Threads |-> RunIdle]
  /\ files = [p \in Paths |-> Absent]
  /\ modified = << >>
  /\ clock = 0
  /\ response = NoResponse
  /\ appended = 0
  /\ predicted = 0
  /\ runs = 0
  /\ lastCompleted = Absent

\* ------------------------------------------------------------------------
\* Startup and time
\* ------------------------------------------------------------------------
\* startup_event: scheduler.start(); requests are served after it
startup_event ==
  /\ scheduler = "stopped"
  /\ scheduler' = "running"
  /\ UNCHANGED << production_data, df_reference, handler, request, globbed, keyed, run, files, modified,
                  clock, response, appended, predicted, runs, lastCompleted >>

\* shutdown_event: scheduler.shutdown(), when the server stops, after the
\* requests in flight were answered.  The timer stops; shutdown waits for
\* the job that is executing (wait=True), which runs to its end.  The
\* process ends after it: a scheduler shut down is not started again.
shutdown_event ==
  /\ scheduler = "running"
  /\ handler = "idle"
  /\ scheduler' = "shutdown"
  /\ UNCHANGED << production_data, df_reference, handler, request, globbed, keyed, run,
                  files, modified, clock, response, appended, predicted, runs,
                  lastCompleted >>

ClockTick ==
  /\ clock < MaxClock
  /\ clock' = clock + 1
  /\ UNCHANGED << production_data, df_reference, scheduler, handler, request, globbed, keyed,
                  run, files, modified, response, appended, predicted, runs, lastCompleted >>

\* ------------------------------------------------------------------------
\* POST /predict
\* ------------------------------------------------------------------------
\* Lines 154-167 of a call that succeeds: the entry is appended.  The
\* scheduler's thread can run before the length check of line 170.
\* (appended counts the entries the calls added to the list.)
PredictAppend(cap) ==
  /\ scheduler = "running"
  /\ handler = "idle"
  /\ appended < cap
  /\ \E features \in FeatureInputs(appended + 1) :
       /\ predict_try(production_data, features).ok
       /\ production_data' = predict_try(production_data, features).buf
       /\ request' = features
  /\ handler' = "predict"
  /\ appended' = appended + (Len(production_data') - Len(production_data))
  /\ UNCHANGED << df_reference, scheduler, run, files, modified, clock, response,
                  predicted, runs, lastCompleted, globbed, keyed >>

\* Lines 170-176: evict the oldest entry beyond the capacity and return.
PredictReturn ==
  /\ handler = "predict"
  /\ production_data' = Evict(production_data)
  /\ handler' = "idle"
  /\ request' = << >>
  /\ response' = [handler |-> "predict", request |-> request,
                  body |-> predict_body(request)]
  /\ predicted' = predicted + 1
  /\ UNCHANGED << df_reference, scheduler, run, files, modified, clock, appended,
                  runs, lastCompleted, globbed, keyed >>

\* A call whose try block raises: the except clause returns {error}.
PredictError ==
  /\ scheduler = "running"
  /\ handler = "idle"
  /\ \E features \in FeatureInputs(appended + 1) :
       /\ ~ predict_try(production_data, features).ok
       /\ production_data' = predict_try(production_data, features).buf
       /\ response' = [handler |-> "predict", request |-> features,
                       body |-> predict_try(production_data, features).body]
  /\ appended' = appended + (Len(production_data') - Len(production_data))
  /\ UNCHANGED << df_reference, scheduler, handler, request, globbed, keyed, run, files, modified,
                  clock, predicted, runs, lastCompleted >>

\* ------------------------------------------------------------------------
\* The analysis: generate_drift_report_background (scheduled job and
\* trigger_now) and the body of generate_report
\* ------------------------------------------------------------------------
\* What the manual endpoints return for a run that ended with r.
\* trigger_now returns the same message whatever the function did;
\* generate_report returns by outcome.
ManualResponse(r, data_points) ==
  [handler |-> r.trigger, request |-> << >>,
   body |->
     IF r.trigger = "trigger_now"
     THEN [message |-> "Drift detection triggered successfully",
           data_points_analyzed |-> data_points]
     ELSE CASE r.outcome = "skipped" ->
                 [message |-> "Not enough data to generate report",
                  current_data_points |-> data_points]
            [] r.outcome = "saved" ->
                 [message |-> "Report generated successfully (manual trigger)",
                  report_path |-> report_path(r.trigger, r.timestamp),
                  data_points_analyzed |-> data_points]
            [] OTHER -> [error |-> "exception"]]

\* Variant: a run that raised never returns; its thread stays in the
\* function.
EndRun_Stuck(t, r) ==
  /\ run' = [run EXCEPT ![t] =
               [RunIdle EXCEPT !.outcome = r.outcome,
                               !.pc = IF r.outcome = "error"
                                      THEN "raised" ELSE "idle"]]
  /\ IF t = "loop"
     THEN /\ handler' = "idle"
          /\ response' = ManualResponse(r, Len(production_data))
     ELSE UNCHANGED << handler, response >>

\* The function on thread t ends with locals r: the job goes back to the
\* scheduler, a manual handler returns its response to the client.
EndRun(t, r) ==
  /\ run' = [run EXCEPT ![t] = [RunIdle EXCEPT !.outcome = r.outcome]]
  /\ IF t = "loop"
     THEN /\ handler' = "idle"
          /\ response' = ManualResponse(r, Len(production_data))
     ELSE UNCHANGED << handler, response >>

\* The except clause: the exception is logged, the locals are dropped.
Raised(r) == [r EXCEPT !.outcome = "error"]

\* Entry of the function up to the MIN_SAMPLES check (lines 52-60 and
\* 189-199).
BeginRun(t, trigger) ==
  LET r0 == [RunIdle EXCEPT !.trigger = trigger,
                            !.latest_before = files[latest_report_path]]
  IN  IF InsufficientData(Len(production_data))
      THEN /\ EndRun(t, [r0 EXCEPT !.outcome = "skipped"])
           /\ UNCHANGED runs
      ELSE /\ runs < MaxRuns
           /\ runs' = runs + 1
           /\ run' = [run EXCEPT ![t] = [r0 EXCEPT !.pc = "snapshot"]]
           /\ IF t = "loop"
              THEN handler' = trigger /\ UNCHANGED response
              ELSE UNCHANGED << handler, response >>

\* A tick of the interval job 'drift_detection'.  APScheduler runs at most
\* one instance of a job (max_instances = 1): a tick that finds the
\* previous instance still running is skipped.
JobTick ==
  /\ scheduler = "running"
  /\ run["scheduler"].pc = "idle"
  /\ BeginRun("scheduler", "tick")
  /\ UNCHANGED << production_data, df_reference, scheduler, request, globbed, keyed, files, modified,
                  clock, appended, predicted, lastCompleted >>

\* POST /monitor/trigger_now
trigger_drift_detection_now ==
  /\ scheduler = "running"
  /\ handler = "idle"
  /\ BeginRun("loop", "trigger_now")
  /\ UNCHANGED << production_data, df_reference, scheduler, request, globbed, keyed, files, modified,
                  clock, appended, predicted, lastCompleted >>

\* GET /monitor/generate_report
generate_report ==
  /\ scheduler = "running"
  /\ handler = "idle"
  /\ BeginRun("loop", "generate_report")
  /\ UNCHANGED << production_data, df_reference, scheduler, request, globbed, keyed, files, modified,
                  clock, appended, predicted, lastCompleted >>

\* Variant: the copy drains the list it was taken from.
RunSnapshot_Drain(t) ==
  /\ run[t].pc = "snapshot"
  /\ run' = [run EXCEPT ![t].df_current = production_data,
                        ![t].pc = "analyze"]
  /\ production_data' = << >>
  /\ UNCHANGED << df_reference, scheduler, handler, request, globbed, keyed,
                  files, modified, clock, response, appended, predicted, runs,
                  lastCompleted >>

\* df_current = pd.DataFrame(production_data)
RunSnapshot(t) ==
  /\ run[t].pc = "snapshot"
  /\ run' = [run EXCEPT ![t].df_current = production_data,
                        ![t].pc = "analyze"]
  /\ UNCHANGED << production_data, df_reference, scheduler, handler, request, globbed, keyed,
                  files, modified, clock, response, appended, predicted, runs,
                  lastCompleted >>

\* report.run(...) and timestamp = datetime.now().strftime(...); the
\* analysis may raise.
RunAnalyze(t) ==
  /\ run[t].pc = "analyze"
  /\ \E raises \in BOOLEAN :
       IF raises
       THEN EndRun(t, Raised(run[t]))
       ELSE /\ run' = [run EXCEPT
                 ![t].my_eval =
                     Analyze(df_reference, SelectFeatures(run[t].df_current)),
                 ![t].timestamp = Strftime(clock),
                 ![t].pc = "save_report"]
            /\ UNCHANGED << handler, response >>
  /\ UNCHANGED << production_data, df_reference, scheduler, request, globbed, keyed, files, modified,
                  clock, appended, predicted, runs, lastCompleted >>

\* One save_html call of the run on thread t, to path; next is the
\* position after it.
SaveStep(t, path, next) ==
  \E outcome \in SaveOutcomes :
    /\ files' = save_html(files, path, run[t].my_eval, outcome)
    /\ modified' = IF outcome = "raise_untouched"
                   THEN modified ELSE Touch(modified, path, keyed)
    /\ IF outcome = "ok"
       THEN /\ run' = [run EXCEPT ![t].pc = next]
            /\ UNCHANGED << handler, response >>
       ELSE EndRun(t, Raised(run[t]))

\* my_eval.save_html(report_path)
RunSaveReport(t) ==
  /\ run[t].pc = "save_report"
  /\ SaveStep(t, report_path(run[t].trigger, run[t].timestamp), "save_latest")
  /\ UNCHANGED << production_data, df_reference, scheduler, request, globbed, keyed, clock,
                  appended, predicted, runs, lastCompleted >>

\* my_eval.save_html(latest_report_path)
RunSaveLatest(t) ==
  /\ run[t].pc = "save_latest"
  /\ SaveStep(t, latest_report_path, "verify")
  /\ UNCHANGED << production_data, df_reference, scheduler, request, globbed, keyed, clock,
                  appended, predicted, runs, lastCompleted >>

\* The os.path.exists check and the return: the run completed.
RunVerify(t) ==
  /\ run[t].pc = "verify"
  /\ lastCompleted' = run[t].my_eval
  /\ EndRun(t, [run[t] EXCEPT !.outcome = "saved"])
  /\ UNCHANGED << production_data, df_reference, scheduler, request, globbed, keyed, files, modified,
                  clock, appended, predicted, runs >>

\* ------------------------------------------------------------------------
\* GET /monitor/status and GET /health
\* ------------------------------------------------------------------------
\* for file in files[:10]
RecentLimit == 10

\* glob.glob("reports/drift_report_*.html"): the files of the directory
\* whose name starts with drift_report_ and ends with .html.  The
\* timestamped reports, the manual reports and the latest file all do.
GlobReports(dir) ==
  { p \in Paths :
      /\ dir[p] # Absent
      /\ p[1] \in {"drift_report", "drift_report_manual",
                    "drift_report_latest"} }

Reverse(seq) == [i \in 1..Len(seq) |-> seq[Len(seq) + 1 - i]]

\* paths by modification time, newest first
NewestFirst(paths, order) ==
  Reverse(SelectSeq(order, LAMBDA q : q \in paths))

\* files.sort(key=os.path.getmtime, reverse=True): the paths of found by
\* the time getmtime returned for each, newest first
SortByMtime(found, order) ==
  LET readTimes ==
        SelectSeq(order, LAMBDA q :
          IF IsKey(q) THEN Tail(q) \in found
          ELSE q \in found /\ ~ HasKey(order, q))
  IN  Reverse([i \in 1..Len(readTimes) |->
                 IF IsKey(readTimes[i]) THEN Tail(readTimes[i])
                 ELSE readTimes[i]])

\* files[:n]
Take(seq, n) == SubSeq(seq, 1, IF Len(seq) < n THEN Len(seq) ELSE n)

\* Variant: ready only above the minimum.
ReadyForDetection_Strict(n) == n > MIN_SAMPLES

\* "ready_for_detection": len(production_data) >= 10
ReadyForDetection(n) == n >= MIN_SAMPLES

\* The dictionary monitor_status returns: reports are listed by name.
\* found is the result of glob, order holds the modification times the
\* sort has read.
StatusBody(buf, found, order) ==
  LET report_files == Take(SortByMtime(found, order), RecentLimit)
  IN  [automatic_detection |-> "enabled",
       next_scheduled_run |-> "next_run_time",
       current_data_points |-> Len(buf),
       minimum_data_points_required |-> MIN_SAMPLES,
       ready_for_detection |-> ReadyForDetection(Len(buf)),
       recent_reports |-> report_files,
       latest_report_url |->
         IF report_files # << >> THEN "drift_report_latest.html" ELSE "None"]

\* GET /monitor/status, an async handler on the event loop, up to
\* files = glob.glob(report_pattern) (line 270).  The job's thread can
\* write reports before and while the sort of line 271 reads the
\* modification times.
StatusGlob ==
  /\ scheduler = "running"
  /\ handler = "idle"
  /\ handler' = "monitor_status"
  /\ globbed' = GlobReports(files)
  /\ keyed' = {}
  /\ UNCHANGED << production_data, df_reference, scheduler, request,
                  run, files, modified, clock, response, appended, predicted,
                  runs, lastCompleted >>

\* Line 271, one call of the key function: os.path.getmtime(path) for a
\* path of files (glob returns them in the order of the directory
\* listing, which is any order).
StatusStat(path) ==
  /\ handler = "monitor_status"
  /\ path \in globbed \ keyed
  /\ keyed' = keyed \cup {path}
  /\ UNCHANGED << production_data, df_reference, scheduler, handler, request,
                  globbed, run, files, modified, clock, response, appended,
                  predicted, runs, lastCompleted >>

\* Lines 271-310 after the last key was read: the paths are sorted by the
\* times read, and the dictionary is returned.
StatusReturn ==
  /\ handler = "monitor_status"
  /\ keyed = globbed
  /\ handler' = "idle"
  /\ globbed' = {}
  /\ keyed' = {}
  /\ modified' = LiveOrder(modified)
  /\ response' = [handler |-> "monitor_status", request |-> << >>,
                  body |-> StatusBody(production_data, globbed, modified)]
  /\ UNCHANGED << production_data, df_reference, scheduler, request,
                  run, files, clock, appended, predicted, runs,
                  lastCompleted >>

monitor_status ==
  StatusGlob \/ (\E path \in Paths : StatusStat(path)) \/ StatusReturn

\* GET /health, a plain function: it runs in the server's thread pool,
\* whatever the event loop is doing.
health ==
  /\ scheduler = "running"
  /\ response' = [handler |-> "health", request |-> << >>,
                  body |-> [status |-> "ok",
                            automatic_drift_detection |-> "enabled"]]
  /\ UNCHANGED << production_data, df_reference, scheduler, handler, request, globbed, keyed,
                  run, files, modified, clock, appended, predicted, runs,
                  lastCompleted >>

Next ==
  \/ startup_event
  \/ shutdown_event
  \/ ClockTick
  \/ PredictAppend(MaxRequests)
  \/ PredictReturn
  \/ PredictError
  \/ JobTick
  \/ trigger_drift_detection_now
  \/ generate_report
  \/ \E t \in Threads : RunSnapshot(t)
  \/ \E t \in Threads : RunAnalyze(t)
  \/ \E t \in Threads : RunSaveReport(t)
  \/ \E t \in Threads : RunSaveLatest(t)
  \/ \E t \in Threads : RunVerify(t)

Spec == Init /\ [][Next]_vars

\* The timer of the interval trigger fires again and again, and the
\* scheduler's worker thread keeps executing the job it was given.
SpecFair ==
  /\ Init /\ [][Next]_vars
  /\ WF_vars(startup_event)
  /\ WF_vars(JobTick)
  /\ WF_vars(RunSnapshot("scheduler"))
  /\ WF_vars(RunAnalyze("scheduler"))
  /\ WF_vars(RunSaveReport("scheduler"))
  /\ WF_vars(RunSaveLatest("scheduler"))
  /\ WF_vars(RunVerify("scheduler"))

\* The service with its two read-only endpoints.  The clock stands still:
\* the status reads names and modification times, and every run of these
\* behaviours names its report by the same second.
NextStatus ==
  \/ startup_event
  \/ shutdown_event
  \/ PredictAppend(MaxRequests)
  \/ PredictReturn
  \/ PredictError
  \/ JobTick
  \/ trigger_drift_detection_now
  \/ generate_report
  \/ \E t \in Threads : RunSnapshot(t)
  \/ \E t \in Threads : RunAnalyze(t)
  \/ \E t \in Threads : RunSaveReport(t)
  \/ \E t \in Threads : RunSaveLatest(t)
  \/ \E t \in Threads : RunVerify(t)
  \/ monitor_status
  \/ health

SpecStatus == Init /\ [][NextStatus]_vars

\* ------------------------------------------------------------------------
\* The rolling list alone: /predict calls beyond the capacity
\* ------------------------------------------------------------------------
\* Only predict writes production_data; the analysis reads it.  This
\* specification follows the list through more than Capacity calls, with
\* the handlers of predict as its only steps.
NextBuffer ==
  \/ startup_event
  \/ shutdown_event
  \/ PredictAppend(MaxAppends)
  \/ PredictReturn
  \/ PredictError

SpecBuffer == Init /\ [][NextBuffer]_vars

\* ------------------------------------------------------------------------
\* Properties
\* ------------------------------------------------------------------------
AllIdle == \A t \in Threads : run[t].pc = "idle"

IsPrediction(resp) ==
  resp.handler = "predict" /\ "class_id" \in DOMAIN resp.body

IsPredictError(resp) ==
  resp.handler = "predict" /\ "error" \in DOMAIN resp.body

\* C1: at most one analysis run is in progress at any time, whatever
\* started it: the job's run and a manual run never overlap.
C1_AtMostOneRun ==
  ~ (InProgress(run["scheduler"]) /\ InProgress(run["loop"]))

\* C2: a run requested while another run is in progress is rejected: it
\* starts no analysis, writes nothing, and ends on the spot as rejected.
C2_BusyRequestRejected ==
  [][ \A t \in Threads :
        (/\ run[t].pc = "idle"
         /\ run'[t] # run[t]
         /\ InProgress(run[Other(t)]))
        => /\ run'[t].pc = "idle"
           /\ run'[t].outcome = "rejected"
           /\ files' = files ]_vars

\* C3: after N > Capacity successful /predict calls, the list holds exactly
\* the last Capacity logged readings, oldest first.
C3_LastCapacityRecords ==
  (handler = "idle" /\ predicted > Capacity) =>
    /\ Len(production_data) = Capacity
    /\ \A i \in 1..Capacity :
         \A c \in Columns :
           production_data[i][c] = predicted - Capacity + i

C3_Witness ==
  handler = "idle" /\ predicted > Capacity + 1

\* C4: the list never holds more than Capacity entries, in any state,
\* the states inside a /predict call included.
C4_LenAtMostCapacity == Len(production_data) <= Capacity

\* C5: a run that starts on a list of fewer than MIN_SAMPLES entries ends
\* on the spot as skipped, having written no report file and leaving the
\* reports directory, the latest file included, as it was.
C5_SmallBufferWritesNothing ==
  [][ \A t \in Threads :
        (/\ run[t].pc = "idle"
         /\ run'[t] # run[t]
         /\ Len(production_data) < MIN_SAMPLES)
        => /\ run'[t].pc = "idle"
           /\ run'[t].outcome = "skipped"
           /\ files' = files ]_vars

C5_Witness ==
  /\ run["scheduler"].outcome = "skipped"
  /\ run["loop"].outcome = "skipped"
  /\ Len(production_data) = MIN_SAMPLES - 1

\* C6: when no run is in progress and some run has completed, the latest
\* file holds the report of the run that completed last.
C6_LatestIsLastCompleted ==
  (AllIdle /\ lastCompleted # Absent) =>
    files[latest_report_path] = lastCompleted

\* C7: a run that fails leaves the latest file as it was when the run
\* started.
C7_FailedRunKeepsLatest ==
  [][ \A t \in Threads :
        (/\ run[t].pc # "idle"
         /\ run'[t].pc = "idle"
         /\ run'[t].outcome = "error")
        => files'[latest_report_path] = run[t].latest_before ]_vars

\* C8: while an analysis is in progress, a /predict request can be handled:
\* the handler can take its next step.
C8_PredictNeverWaits ==
  ((\E t \in Threads : InProgress(run[t])) /\ appended < MaxRequests) =>
    (ENABLED PredictAppend(MaxRequests) \/ ENABLED PredictReturn)

\* C9: every /predict call that returned a prediction appended exactly one
\* entry, made of the request's features and the returned class id.
C9_PredictionLogged ==
  /\ appended = predicted + (IF handler = "predict" THEN 1 ELSE 0)
  /\ (handler # "predict" /\ IsPrediction(response)) =>
       /\ Len(production_data) > 0
       /\ production_data[Len(production_data)] =
            [c \in Columns \cup {"prediction"} |->
               IF c = "prediction" THEN response.body.class_id
                                   ELSE response.request[c]]

C9_Witness ==
  /\ IsPrediction(response)
  /\ handler = "idle"
  /\ run["scheduler"].pc = "save_latest"
  /\ Len(run["scheduler"].df_current) < Len(production_data)

\* C10: a /predict call that fails returns {error} and leaves the list,
\* the reports directory and the scheduled job as they were.
C10_FailedPredictTouchesNothing ==
  [][ (response' # response /\ IsPredictError(response')) =>
        /\ production_data' = production_data
        /\ files' = files
        /\ scheduler' = scheduler
        /\ run'["scheduler"] = run["scheduler"] ]_vars

C10_Witness ==
  /\ IsPredictError(response)
  /\ Len(production_data) >= MIN_SAMPLES
  /\ files[latest_report_path] # Absent
  /\ InProgress(run["scheduler"])

\* ------------------------------------------------------------------------
\* Responses of the manual endpoints
\* ------------------------------------------------------------------------
\* What a response tells the client about the run.
ResponseClass(resp) ==
  IF "error" \in DOMAIN resp.body THEN "error"
  ELSE IF resp.body.message = "Not enough data to generate report"
       THEN "insufficient data"
       ELSE "success"

\* What a run that ended with outcome did.
OutcomeClass(outcome) ==
  CASE outcome = "skipped" -> "insufficient data"
    [] outcome = "saved" -> "success"
    [] OTHER -> "error"

ManualHandlers == {"trigger_now", "generate_report"}

\* C11: the response of trigger_now tells what its run did: success only
\* when the run saved a report, insufficient data when the run was skipped,
\* an error when it failed.
C11_TriggerResponseReflectsRun ==
  (response.handler = "trigger_now" /\ run["loop"].pc = "idle") =>
    ResponseClass(response) = OutcomeClass(run["loop"].outcome)

\* C12: the two manual endpoints are aliases: whenever one of them returns
\* for a run that ended with some outcome, its response is of the class the
\* other endpoint returns for a run with that outcome.
C12_ManualEndpointsAgree ==
  [][ (response' # response /\ response'.handler \in ManualHandlers) =>
        \A other \in ManualHandlers :
          ResponseClass(response') =
            ResponseClass(ManualResponse(
              [RunIdle EXCEPT !.trigger = other,
                              !.outcome = run'["loop"].outcome],
              Len(production_data))) ]_vars

\* C13: the cadence heals itself: whatever the job's runs do (skip, fail in
\* the analysis or in a write, complete), the job comes back to where its
\* next tick can start a run (or the runs explored are used up), for as
\* long as the service is not shut down.
C13_CadenceSelfHealing ==
  [](scheduler = "running" =>
       <>(ENABLED JobTick \/ runs >= MaxRuns \/ scheduler = "shutdown"))

\* a tick has started a run after the job's previous run had failed
C13_Witness ==
  /\ run["scheduler"].pc = "snapshot"
  /\ runs = 2
  /\ run["loop"].outcome = "none"
  /\ lastCompleted = Absent

\* C14: a run analyses one point-in-time copy of the list, and the size it
\* compared with MIN_SAMPLES is the size of that copy: the list does not
\* change between the size check and the copy.
C14_CheckedSizeIsWindowSize ==
  [][ (\E t \in Threads : run[t].pc = "snapshot") =>
        production_data' = production_data ]_vars

\* C15: the report store is append-only: no step changes a timestamped
\* report that an earlier run has written.
C15_ReportsAppendOnly ==
  [][ \A p \in Paths \ {latest_report_path} :
        files[p].kind = "report" => files'[p] = files[p] ]_vars

\* C19: no step changes the reference frame, and the list changes only in
\* the steps of predict, whatever analysis runs and however it ends.
C19_AnalysisReadsOnly ==
  [][ /\ df_reference' = df_reference
      /\ df_reference = IrisFrame
      /\ production_data' # production_data =>
           (handler = "predict" \/ handler' = "predict") ]_vars

C19_Witness ==
  /\ run["scheduler"].outcome = "saved"
  /\ run["loop"].outcome = "error"
  /\ Len(production_data) > MIN_SAMPLES

\* C20: between /predict calls the list holds min(N, Capacity) entries
\* after N successful calls, and once it holds MIN_SAMPLES entries it holds
\* at least as many in every later state.
C20_SizeNeverDecreases ==
  [][ /\ Len(production_data) >= MIN_SAMPLES =>
           Len(production_data') >= MIN_SAMPLES
      /\ handler' = "idle" =>
           Len(production_data') =
             (IF predicted' < Capacity THEN predicted' ELSE Capacity) ]_vars

C20_Witness ==
  handler = "idle" /\ predicted > Capacity /\ Len(production_data) = Capacity

\* ------------------------------------------------------------------------
\* The status endpoints
\* ------------------------------------------------------------------------
\* a step in which the handler named h returns a response
Returns(h) == response' # response /\ response'.handler = h

\* the step in which monitor_status returns, and the steps of the handler
StatusReturns == handler = "monitor_status" /\ handler' = "idle"

StatusSteps ==
  /\ "monitor_status" \in {handler, handler'}
  /\ handler' # handler \/ keyed' # keyed

\* the reports runs have appended: every file but the latest alias
AppendedReports == { p \in Paths \ {latest_report_path} : files[p] # Absent }

\* C16: recent_reports lists the min(10, number of reports) most recently
\* appended reports, newest first, each once, and not the latest alias.
C16_RecentReportsAreAppended ==
  [][ StatusReturns =>
        response'.body.recent_reports =
          Take(NewestFirst(AppendedReports, LiveOrder(modified)), RecentLimit) ]_vars

\* C17: latest_report_url is non-null exactly when the latest file exists.
C17_LatestUrlIffLatestExists ==
  [][ StatusReturns =>
        (response'.body.latest_report_url # "None"
           <=> files[latest_report_path] # Absent) ]_vars

\* C18: status and health change nothing (the list, the report files, the
\* latest file, the scheduled job), and status reports the size of the list
\* and its readiness as they are when the call is handled.
C18_StatusReadsOnly ==
  [][ (StatusSteps \/ Returns("health")) =>
        /\ production_data' = production_data
        /\ files' = files
        /\ LiveOrder(modified') = LiveOrder(modified)
        /\ scheduler' = scheduler
        /\ run' = run
        /\ StatusReturns =>
             /\ response'.handler = "monitor_status"
             /\ response'.body.current_data_points = Len(production_data)
             /\ response'.body.ready_for_detection
                  = (Len(production_data) >= MIN_SAMPLES) ]_vars

C18_Witness ==
  /\ response.handler = "monitor_status"
  /\ response.body.ready_for_detection
  /\ response.body.current_data_points = MIN_SAMPLES
  /\ Len(production_data) = MIN_SAMPLES
  /\ InProgress(run["scheduler"])

\* C21: every analysis that is executed receives a window of at least
\* MIN_SAMPLES records: the list holds at least MIN_SAMPLES entries from
\* the size check to the copy, whatever predict calls run in between, so
\* the copy, the frame handed to the analyzer and every report written
\* from it have at least MIN_SAMPLES rows.
C21_WindowAtLeastMinSamples ==
  /\ \A t \in Threads :
       /\ run[t].pc = "snapshot" => Len(production_data) >= MIN_SAMPLES
       /\ run[t].pc \in {"analyze", "save_report", "save_latest", "verify"} =>
            Len(run[t].df_current) >= MIN_SAMPLES
       /\ run[t].my_eval # Absent =>
            Len(run[t].my_eval.current) >= MIN_SAMPLES
  /\ \A p \in Paths :
       files[p].kind = "report" => Len(files[p].current) >= MIN_SAMPLES

\* The analyzer has run for the scheduled job on a window that holds the
\* entry of a predict call that has not returned yet.
C21_Witness ==
  /\ run["scheduler"].pc = "save_report"
  /\ run["scheduler"].trigger = "tick"
  /\ Len(run["scheduler"].my_eval.current) = MIN_SAMPLES + 1
  /\ handler = "predict"
  /\ predicted = MIN_SAMPLES

====
